---- MODULE Spec2Model ----
(***************************************************************************)
(* Cae_Jump.js (RPG Maker MZ plugin): jump legality, failure policy,       *)
(* jumpTo, hop movement and the save bridge, as a state machine.           *)
(*                                                                         *)
(* Numbers the plugin keeps as floats with two decimals (speed and height  *)
(* multipliers, additive speed) are kept in hundredths: 100 is 1.00.       *)
(* A JavaScript value that may be undefined is a sequence: << >> is        *)
(* undefined, <<v>> is the value v.                                        *)
(***************************************************************************)
EXTENDS Integers, Sequences, FiniteSets, TLC

\* ------------------------------------------------------------------ bounds
MapW == 3
MapH == 2
MaxJump == 1
MaxSwitch == 1

VARIABLES
    rule,          \* $.rule: pass, zones, stayJumpy, failSw
    allHop,        \* $.allHop
    save,          \* $.save
    def,           \* $.def: v, h
    addV,          \* $.addV
    mulH,          \* $.mulH
    gameMap,       \* $gameMap: width, height, loops, passage, regions, others
    char,          \* the Game_CharacterBase the operations are applied to
    gameSwitches,  \* $gameSwitches
    saveFile,      \* the aggregate save contents last written
    last           \* call record of the last top-level operation

vars == <<rule, allHop, save, def, addV, mulH, gameMap, char, gameSwitches, saveFile, last>>

\* ------------------------------------------------------------ value helpers
Undefined == << >>

Val(v) == <<v>>

\* a countdown that is not a number (a number minus undefined)
NaN == << >>

Abs(n) == IF n < 0 THEN -n ELSE n

Max(a, b) == IF a > b THEN a ELSE b

\* JavaScript truthiness of an optional number / boolean
TruthyNum(o) == o # Undefined /\ o[1] # 0

TruthyBool(o) == o # Undefined /\ o[1]

\* ------------------------------------------------------------ engine: $gameMap
Dirs == {2, 4, 6, 8}

TilesOf(w, h) == (0 .. w - 1) \X (0 .. h - 1)

Tiles == TilesOf(gameMap.width, gameMap.height)

\* coordinates the model lets a character or a target take: the map and a
\* one-tile border around it
WindowX == -1 .. gameMap.width

WindowY == -1 .. gameMap.height

isValid(x, y) == x >= 0 /\ x < gameMap.width /\ y >= 0 /\ y < gameMap.height

isPassable(x, y, d) == isValid(x, y) /\ d \in gameMap.passage[<<x, y>>]

regionId(x, y) == IF isValid(x, y) THEN gameMap.region[<<x, y>>] ELSE 0

roundX(x) == IF gameMap.loopH THEN x % gameMap.width ELSE x

roundY(y) == IF gameMap.loopV THEN y % gameMap.height ELSE y

roundXWithDirection(x, d) == roundX(x + (IF d = 6 THEN 1 ELSE IF d = 4 THEN -1 ELSE 0))

roundYWithDirection(y, d) == roundY(y + (IF d = 2 THEN 1 ELSE IF d = 8 THEN -1 ELSE 0))

\* ------------------------------------------------------------ engine: character
pos(c, x, y) == c.x = x /\ c.y = y

isThrough(c) == c.through

isCollidedWithCharacters(c, x, y) == <<x, y>> \in gameMap.others

reverseDir(d) == 10 - d

isMapPassable(c, x, y, d) ==
    LET x2 == roundXWithDirection(x, d)
        y2 == roundYWithDirection(y, d)
    IN  isPassable(x, y, d) /\ isPassable(x2, y2, reverseDir(d))

canPass(c, x, y, d) ==
    LET x2 == roundXWithDirection(x, d)
        y2 == roundYWithDirection(y, d)
    IN  IF ~isValid(x2, y2) THEN FALSE
        ELSE IF isThrough(c) THEN TRUE
        ELSE IF ~isMapPassable(c, x, y, d) THEN FALSE
        ELSE IF isCollidedWithCharacters(c, x2, y2) THEN FALSE
        ELSE TRUE

canPassDiagonally(c, x, y, horz, vert) ==
    LET x2 == roundXWithDirection(x, horz)
        y2 == roundYWithDirection(y, vert)
    IN  \/ canPass(c, x, y, vert) /\ canPass(c, x, y2, horz)
        \/ canPass(c, x, y, horz) /\ canPass(c, x2, y, vert)

\* Math.round(Math.sqrt(xPlus * xPlus + yPlus * yPlus))
jumpDistance(xPlus, yPlus) ==
    LET s == xPlus * xPlus + yPlus * yPlus
    IN  CHOOSE n \in 0 .. (Abs(xPlus) + Abs(yPlus)) :
            /\ 4 * s < (2 * n + 1) * (2 * n + 1)
            /\ (n = 0 \/ (2 * n - 1) * (2 * n - 1) <= 4 * s)

\* the engine's Game_CharacterBase.prototype.jump, which the plugin aliases;
\* _jumpCount is kept in hundredths, because the plugin makes it fractional
nativeJump(c, xPlus, yPlus) ==
    LET peak == 10 + jumpDistance(xPlus, yPlus) - c.moveSpeed
    IN  [c EXCEPT !.x = c.x + xPlus, !.y = c.y + yPlus,
                  !.jumpPeak = peak, !.jumpCount = Val(peak * 2 * 100)]

\* _jumpCount > 0, which is false of NaN
isJumping(c) == c.jumpCount # NaN /\ c.jumpCount[1] > 0

\* the engine's Game_CharacterBase.prototype.updateJump, which the plugin
\* aliases: one step down, and on reaching 0 the character lands on its tile
nativeUpdateJump(c) ==
    LET count == IF c.jumpCount = NaN THEN NaN ELSE Val(c.jumpCount[1] - 100)
    IN  IF count = Val(0)
        THEN [c EXCEPT !.jumpCount = count, !.x = roundX(c.x), !.y = roundY(c.y)]
        ELSE [c EXCEPT !.jumpCount = count]

\* $gameSwitches.setValue(id, value)
setValue(sw, id, value) ==
    IF id > 0 /\ id \in DOMAIN sw THEN [sw EXCEPT ![id] = value] ELSE sw

\* ------------------------------------------------------------ plugin: legality
RECURSIVE stepTile(_, _, _, _)
stepTile(res, dir, isX, n) ==
    IF n = 0 THEN res
    ELSE stepTile(IF isX THEN roundXWithDirection(res, dir)
                         ELSE roundYWithDirection(res, dir), dir, isX, n - 1)

\* mutant: the offset is added directly, without the engine's per-step rounding
getTargetTile_directAdd(start, plus, isX) == start + plus

getTargetTile(start, plus, isX) ==
    IF plus = 0 THEN start
    ELSE LET dir == IF isX THEN (IF plus > 0 THEN 6 ELSE 4)
                           ELSE (IF plus > 0 THEN 2 ELSE 8)
         IN  stepTile(start, dir, isX, Abs(plus))

\* Array.prototype.find: the first entry for the region, else undefined
getZoneFromRegion(region) ==
    LET hits == {i \in 1 .. Len(rule.zones) : rule.zones[i].regionID = region}
    IN  IF hits = {} THEN Undefined
        ELSE Val(rule.zones[CHOOSE i \in hits : \A j \in hits : i <= j].jumpZone)

\* mutant: the landing tile is tested for entry from one fixed direction only
checkPassage_oneDirection(c, x, y) ==
    IF ~rule.pass THEN TRUE
    ELSE IF pos(c, x, y) THEN TRUE
    ELSE IF isThrough(c) THEN TRUE
    ELSE IF ~isValid(x, y) THEN FALSE
    ELSE IF isCollidedWithCharacters(c, x, y) THEN FALSE
    ELSE IF ~isPassable(x, y, 2) THEN FALSE
    ELSE TRUE

\* mutant: the test for the character's own tile is left out
checkPassage_noSelf(c, x, y) ==
    IF ~rule.pass THEN TRUE
    ELSE IF isThrough(c) THEN TRUE
    ELSE IF ~isValid(x, y) THEN FALSE
    ELSE IF isCollidedWithCharacters(c, x, y) THEN FALSE
    ELSE IF ~(\E d \in Dirs : isPassable(x, y, d)) THEN FALSE
    ELSE TRUE

checkPassage(c, x, y) ==
    IF ~rule.pass THEN TRUE
    ELSE IF pos(c, x, y) THEN TRUE
    ELSE IF isThrough(c) THEN TRUE
    ELSE IF ~isValid(x, y) THEN FALSE
    ELSE IF isCollidedWithCharacters(c, x, y) THEN FALSE
    ELSE IF ~(\E d \in Dirs : isPassable(x, y, d)) THEN FALSE
    ELSE TRUE

checkJumpZones(sx, sy, tx, ty) ==
    IF Len(rule.zones) = 0 THEN TRUE
    ELSE LET rs == regionId(sx, sy)
             rt == regionId(tx, ty)
         IN  IF rs = rt THEN TRUE
             ELSE LET zs == getZoneFromRegion(rs)
                      zt == getZoneFromRegion(rt)
                  IN  IF TruthyNum(zs) /\ TruthyNum(zt) THEN zs[1] = zt[1] ELSE TRUE

\* mutant: Through does not bypass the two checks
checkJump_noThrough(c, sx, sy, tx, ty) ==
    checkPassage(c, tx, ty) /\ checkJumpZones(sx, sy, tx, ty)

checkJump(c, sx, sy, tx, ty) ==
    isThrough(c) \/ (checkPassage(c, tx, ty) /\ checkJumpZones(sx, sy, tx, ty))

\* ------------------------------------------------------------ plugin: settings
speedMulToAdd(mult) == Max(mult, 1) - 100

\* default parameter: an undefined argument means $.def.v
setJumpSpeed(mult) == Val(speedMulToAdd(IF mult = Undefined THEN def.v ELSE mult[1]))

setJumpHeight(mult) == IF mult = Undefined THEN Val(def.h) ELSE mult

getJumpSpeedAdd(c) == IF c.speedMult # Undefined THEN Val(speedMulToAdd(c.speedMult[1])) ELSE addV

\* mutant: the countdown is offset but never raised to 1
offsetJumpCount_noClamp(c) ==
    LET add == getJumpSpeedAdd(c)
    IN  IF c.jumpCount = NaN \/ add = Undefined THEN NaN ELSE Val(c.jumpCount[1] - add[1])

\* the countdown the aliased updateJump hands to the engine's updateJump:
\* _jumpCount less the additive speed, raised to 1 when it is below 1
\* (a comparison with NaN is false, so NaN is handed on as it is)
offsetJumpCount(c) ==
    LET add == getJumpSpeedAdd(c)
        count == IF c.jumpCount = NaN \/ add = Undefined THEN NaN
                 ELSE Val(c.jumpCount[1] - add[1])
    IN  IF count # NaN /\ count[1] < 100 THEN Val(100) ELSE count

updateJump(c) == nativeUpdateJump([c EXCEPT !.jumpCount = offsetJumpCount(c)])

getJumpHeightMul(c) == IF c.heightMult # Undefined THEN c.heightMult ELSE mulH

\* contents[$.SAVE_PROP] = { addV, mulH }
mkSave(contents) == Val([addV |-> addV, mulH |-> mulH])

\* $._init(); then, if the key holds data, both fields are read from it
exSave(contents) ==
    IF contents # Undefined
    THEN [addV |-> contents[1].addV, mulH |-> contents[1].mulH]
    ELSE [addV |-> setJumpSpeed(Undefined), mulH |-> setJumpHeight(Undefined)]

\* ------------------------------------------------------------ plugin: jump, jumpTo, hop
\* What one top-level call did: the character and switches it leaves, and the
\* calls it made to jumpTo, to the aliased jump, to the engine's jump and to
\* $gameSwitches.setValue, in order.
NoCalls == [jumpTo |-> << >>, jump |-> << >>, native |-> << >>, setValue |-> << >>]

Outcome(c, sw, calls) == [char |-> c, switches |-> sw, calls |-> calls]

\* mutant: the failure switch is set only inside the stay-in-place branch
jump_switchNeedsStay(c, sw, xPlus, yPlus) ==
    LET tx == getTargetTile(c.x, xPlus, TRUE)
        ty == getTargetTile(c.y, yPlus, FALSE)
        ok == checkJump(c, c.x, c.y, tx, ty)
        call == [xPlus |-> xPlus, yPlus |-> yPlus, tx |-> tx, ty |-> ty, ok |-> ok]
        sets == rule.stayJumpy /\ rule.failSw # 0
    IN  IF ok
        THEN Outcome(nativeJump(c, xPlus, yPlus), sw,
                     [NoCalls EXCEPT !.jump = <<call>>, !.native = << <<xPlus, yPlus>> >>])
        ELSE Outcome(IF rule.stayJumpy THEN nativeJump(c, 0, 0) ELSE c,
                     IF sets THEN setValue(sw, rule.failSw, TRUE) ELSE sw,
                     [NoCalls EXCEPT !.jump = <<call>>,
                                     !.native = IF rule.stayJumpy THEN << <<0, 0>> >> ELSE << >>,
                                     !.setValue = IF sets THEN <<rule.failSw>> ELSE << >>])

\* mutant: a failed jump that stays jumpy passes the requested displacement on
jump_failedJumpMoves(c, sw, xPlus, yPlus) ==
    LET tx == getTargetTile(c.x, xPlus, TRUE)
        ty == getTargetTile(c.y, yPlus, FALSE)
        ok == checkJump(c, c.x, c.y, tx, ty)
        call == [xPlus |-> xPlus, yPlus |-> yPlus, tx |-> tx, ty |-> ty, ok |-> ok]
    IN  IF ok
        THEN Outcome(nativeJump(c, xPlus, yPlus), sw,
                     [NoCalls EXCEPT !.jump = <<call>>, !.native = << <<xPlus, yPlus>> >>])
        ELSE Outcome(IF rule.stayJumpy THEN nativeJump(c, xPlus, yPlus) ELSE c,
                     IF rule.failSw # 0 THEN setValue(sw, rule.failSw, TRUE) ELSE sw,
                     [NoCalls EXCEPT !.jump = <<call>>,
                                     !.native = IF rule.stayJumpy THEN << <<xPlus, yPlus>> >> ELSE << >>,
                                     !.setValue = IF rule.failSw # 0 THEN <<rule.failSw>> ELSE << >>])

\* Game_CharacterBase.prototype.jump as aliased by the plugin
jump(c, sw, xPlus, yPlus) ==
    LET tx == getTargetTile(c.x, xPlus, TRUE)
        ty == getTargetTile(c.y, yPlus, FALSE)
        ok == checkJump(c, c.x, c.y, tx, ty)
        call == [xPlus |-> xPlus, yPlus |-> yPlus, tx |-> tx, ty |-> ty, ok |-> ok]
    IN  IF ok
        THEN Outcome(nativeJump(c, xPlus, yPlus), sw,
                     [NoCalls EXCEPT !.jump = <<call>>, !.native = << <<xPlus, yPlus>> >>])
        ELSE Outcome(IF rule.stayJumpy THEN nativeJump(c, 0, 0) ELSE c,
                     IF rule.failSw # 0 THEN setValue(sw, rule.failSw, TRUE) ELSE sw,
                     [NoCalls EXCEPT !.jump = <<call>>,
                                     !.native = IF rule.stayJumpy THEN << <<0, 0>> >> ELSE << >>,
                                     !.setValue = IF rule.failSw # 0 THEN <<rule.failSw>> ELSE << >>])

\* Game_CharacterBase.prototype[$.M_JUMPTO]
jumpTo(c, sw, x, y) ==
    LET dx0 == x - c.x
        dx == IF gameMap.loopH /\ 2 * dx0 > gameMap.width THEN gameMap.width - dx0 ELSE dx0
        dy0 == y - c.y
        dy == IF gameMap.loopV /\ 2 * dy0 > gameMap.height THEN gameMap.height - dy0 ELSE dy0
        out == jump(c, sw, dx, dy)
    IN  [out EXCEPT !.calls.jumpTo = << <<x, y>> >>]

isHopMove(c) == allHop \/ TruthyBool(c.hopMove)

\* mutant: a failed move never hops, whatever the failure policy
doHop_onlyOnSuccess(c, sw) ==
    IF ~isHopMove(c) THEN Outcome(c, sw, NoCalls)
    ELSE IF ~c.moveSucceeded THEN Outcome(c, sw, NoCalls)
    ELSE jumpTo(c, sw, c.x, c.y)

doHop(c, sw) ==
    IF ~isHopMove(c) THEN Outcome(c, sw, NoCalls)
    ELSE IF ~c.moveSucceeded /\ ~rule.stayJumpy THEN Outcome(c, sw, NoCalls)
    ELSE jumpTo(c, sw, c.x, c.y)

\* the engine's moveStraight / moveDiagonally (facing direction is not kept:
\* nothing in the plugin reads it)
nativeMoveStraight(c, d) ==
    IF canPass(c, c.x, c.y, d)
    THEN [c EXCEPT !.moveSucceeded = TRUE,
                   !.x = roundXWithDirection(c.x, d), !.y = roundYWithDirection(c.y, d)]
    ELSE [c EXCEPT !.moveSucceeded = FALSE]

nativeMoveDiagonally(c, horz, vert) ==
    IF canPassDiagonally(c, c.x, c.y, horz, vert)
    THEN [c EXCEPT !.moveSucceeded = TRUE,
                   !.x = roundXWithDirection(c.x, horz), !.y = roundYWithDirection(c.y, vert)]
    ELSE [c EXCEPT !.moveSucceeded = FALSE]

moveStraight(c, sw, d) == doHop(nativeMoveStraight(c, d), sw)

moveDiagonally(c, sw, horz, vert) == doHop(nativeMoveDiagonally(c, horz, vert), sw)

\* ------------------------------------------------------------ configurations
ZoneIds == {0, 5, 9}

Regions == {0, 1, 2}

ZoneEntries == [regionID : Regions, jumpZone : ZoneIds]

\* every zone table of at most two entries
ZoneTables ==
    {<< >>} \cup {<<a>> : a \in ZoneEntries} \cup {<<a, b>> : a, b \in ZoneEntries}

\* the table of the plugin's documentation example: region 1 in zone 5, region 2 in zone 9
TwoZones == <<[regionID |-> 1, jumpZone |-> 5], [regionID |-> 2, jumpZone |-> 9]>>

Rules(passes, tables, stays, switches) ==
    [pass : passes, zones : tables, stayJumpy : stays, failSw : switches]

\* region ids in diagonal stripes 0, 1, 2, 0, ...
StripedRegions == [t \in TilesOf(MapW, MapH) |-> (t[1] + t[2]) % 3]

\* every tile open, but for the top right one, which is open as p says
PassageWith(p) == [t \in TilesOf(MapW, MapH) |-> IF t = <<MapW - 1, 0>> THEN p ELSE Dirs]

WallKinds == {{}, {8}, Dirs}

\* another character stands on the bottom left tile, or none does
OtherKinds == {{}, {<<0, MapH - 1>>}}

Maps(loops, walls, others) ==
    {[width |-> MapW, height |-> MapH, loopH |-> lh, loopV |-> lv,
      passage |-> PassageWith(p), region |-> StripedRegions, others |-> o] :
        lh \in loops, lv \in loops, p \in walls, o \in others}

Chars(throughs, hops) ==
    {[x |-> t[1], y |-> t[2], through |-> th, hopMove |-> hm,
      speedMult |-> Undefined, heightMult |-> Undefined,
      moveSpeed |-> 4, jumpCount |-> Val(0), jumpPeak |-> 0, moveSucceeded |-> TRUE] :
        t \in TilesOf(MapW, MapH), th \in throughs, hm \in hops}

SpeedMults == {0, 1, 50, 100, 150}

HeightMults == {-100, 0, 100}

NoCall == [op |-> "none", args |-> << >>, ret |-> Undefined, calls |-> NoCalls]

\* the state after the plugin has loaded with one of the given configurations
Setup(rules, hops, saves, speeds, heights, maps, chars) ==
    /\ rule \in rules
    /\ allHop \in hops
    /\ save \in saves
    /\ def \in [v : speeds, h : heights]
    /\ addV = setJumpSpeed(Undefined)
    /\ mulH = setJumpHeight(Undefined)
    /\ gameMap \in maps
    /\ char \in chars
    /\ gameSwitches = [i \in 1 .. MaxSwitch |-> FALSE]
    /\ saveFile = Undefined
    /\ last = NoCall

\* ------------------------------------------------------------ actions: legality queries
CallCheckJumpZones(sx, sy, tx, ty) ==
    /\ last' = [op |-> "checkJumpZones", args |-> <<sx, sy, tx, ty>>,
                ret |-> Val(checkJumpZones(sx, sy, tx, ty)), calls |-> NoCalls]
    /\ UNCHANGED <<rule, allHop, save, def, addV, mulH, gameMap, char, gameSwitches, saveFile>>

CallCheckPassage(x, y) ==
    /\ last' = [op |-> "checkPassage", args |-> <<x, y>>,
                ret |-> Val(checkPassage(char, x, y)), calls |-> NoCalls]
    /\ UNCHANGED <<rule, allHop, save, def, addV, mulH, gameMap, char, gameSwitches, saveFile>>

\* as its one caller does, checkJump gets the character's tile as the origin
CallCheckJump(tx, ty) ==
    /\ last' = [op |-> "checkJump", args |-> <<char.x, char.y, tx, ty>>,
                ret |-> Val(checkJump(char, char.x, char.y, tx, ty)), calls |-> NoCalls]
    /\ UNCHANGED <<rule, allHop, save, def, addV, mulH, gameMap, char, gameSwitches, saveFile>>

InitZones ==
    Setup(Rules({FALSE}, ZoneTables, {TRUE}, {0}), {FALSE}, {FALSE}, {100}, {100},
          Maps({FALSE}, {Dirs}, {{}}), {c \in Chars({FALSE}, {Undefined}) : c.x = 0 /\ c.y = 0})

NextZones ==
    \E s \in Tiles, tx \in WindowX, ty \in WindowY : CallCheckJumpZones(s[1], s[2], tx, ty)

SpecZones == InitZones /\ [][NextZones]_vars

InitLegality ==
    Setup(Rules(BOOLEAN, {<< >>, TwoZones}, {TRUE}, {0}), {FALSE}, {FALSE}, {100}, {100},
          Maps({FALSE}, WallKinds, OtherKinds), Chars(BOOLEAN, {Undefined}))

NextLegality ==
    \/ \E x \in WindowX, y \in WindowY : CallCheckPassage(x, y)
    \/ \E tx \in WindowX, ty \in WindowY : CallCheckJump(tx, ty)

SpecLegality == InitLegality /\ [][NextLegality]_vars

\* ------------------------------------------------------------ actions: jump and jumpTo
\* a script or move route calls character.jump(xPlus, yPlus); the request is
\* kept within the window so that the character's coordinates stay bounded
CallJump(xPlus, yPlus) ==
    /\ char.x + xPlus \in WindowX
    /\ char.y + yPlus \in WindowY
    /\ \E out \in {jump(char, gameSwitches, xPlus, yPlus)} :
           /\ char' = out.char
           /\ gameSwitches' = out.switches
           /\ last' = [op |-> "jump", args |-> <<xPlus, yPlus>>, ret |-> Undefined,
                       calls |-> out.calls]
    /\ UNCHANGED <<rule, allHop, save, def, addV, mulH, gameMap, saveFile>>

\* a script or move route calls character.jumpTo(x, y) with a tile of the map
CallJumpTo(x, y) ==
    /\ isValid(x, y)
    /\ \E out \in {jumpTo(char, gameSwitches, x, y)} :
           /\ out.char.x \in WindowX
           /\ out.char.y \in WindowY
           /\ char' = out.char
           /\ gameSwitches' = out.switches
           /\ last' = [op |-> "jumpTo", args |-> <<x, y>>, ret |-> Undefined,
                       calls |-> out.calls]
    /\ UNCHANGED <<rule, allHop, save, def, addV, mulH, gameMap, saveFile>>

Init ==
    Setup(Rules(BOOLEAN, {TwoZones}, BOOLEAN, 0 .. MaxSwitch), {FALSE}, {FALSE}, {100}, {100},
          Maps(BOOLEAN, {{}}, {{<<0, MapH - 1>>}}), Chars(BOOLEAN, {Undefined}))

Next ==
    \/ \E xPlus, yPlus \in -MaxJump .. MaxJump : CallJump(xPlus, yPlus)
    \/ \E t \in Tiles : CallJumpTo(t[1], t[2])

Spec == Init /\ [][Next]_vars

\* ------------------------------------------------------------ actions: hop movement
CallMoveStraight(d) ==
    /\ \E out \in {moveStraight(char, gameSwitches, d)} :
           /\ char' = out.char
           /\ gameSwitches' = out.switches
           /\ last' = [op |-> "moveStraight", args |-> <<d>>, ret |-> Undefined,
                       calls |-> out.calls]
    /\ UNCHANGED <<rule, allHop, save, def, addV, mulH, gameMap, saveFile>>

CallMoveDiagonally(horz, vert) ==
    /\ \E out \in {moveDiagonally(char, gameSwitches, horz, vert)} :
           /\ char' = out.char
           /\ gameSwitches' = out.switches
           /\ last' = [op |-> "moveDiagonally", args |-> <<horz, vert>>, ret |-> Undefined,
                       calls |-> out.calls]
    /\ UNCHANGED <<rule, allHop, save, def, addV, mulH, gameMap, saveFile>>

\* script call: character._hopMove = value
SetHopMove(value) ==
    /\ char' = [char EXCEPT !.hopMove = Val(value)]
    /\ last' = [op |-> "setHopMove", args |-> <<value>>, ret |-> Undefined, calls |-> NoCalls]
    /\ UNCHANGED <<rule, allHop, save, def, addV, mulH, gameMap, gameSwitches, saveFile>>

\* script call: delete character._hopMove
DeleteHopMove ==
    /\ char.hopMove # Undefined
    /\ char' = [char EXCEPT !.hopMove = Undefined]
    /\ last' = [op |-> "deleteHopMove", args |-> << >>, ret |-> Undefined, calls |-> NoCalls]
    /\ UNCHANGED <<rule, allHop, save, def, addV, mulH, gameMap, gameSwitches, saveFile>>

InitHop ==
    Setup(Rules(BOOLEAN, {<< >>, TwoZones}, BOOLEAN, 0 .. MaxSwitch), BOOLEAN, {FALSE}, {100}, {100},
          Maps(BOOLEAN, {{}}, {{<<0, MapH - 1>>}}), Chars(BOOLEAN, {Undefined}))

NextHop ==
    \/ \E d \in Dirs : CallMoveStraight(d)
    \/ \E horz \in {4, 6}, vert \in {2, 8} : CallMoveDiagonally(horz, vert)
    \/ \E value \in BOOLEAN : SetHopMove(value)
    \/ DeleteHopMove

SpecHop == InitHop /\ [][NextHop]_vars

\* ------------------------------------------------------------ actions: settings and save data
\* plugin command Change Jump Speed
ComSetV(mult) ==
    /\ addV' = setJumpSpeed(Val(mult))
    /\ last' = [op |-> "setV", args |-> <<mult>>, ret |-> Undefined, calls |-> NoCalls]
    /\ UNCHANGED <<rule, allHop, save, def, mulH, gameMap, char, gameSwitches, saveFile>>

\* plugin command Reset Jump Speed
ComRstV ==
    /\ addV' = setJumpSpeed(Undefined)
    /\ last' = [op |-> "rstV", args |-> << >>, ret |-> Undefined, calls |-> NoCalls]
    /\ UNCHANGED <<rule, allHop, save, def, mulH, gameMap, char, gameSwitches, saveFile>>

\* plugin command Change Jump Height
ComSetH(mult) ==
    /\ mulH' = setJumpHeight(Val(mult))
    /\ last' = [op |-> "setH", args |-> <<mult>>, ret |-> Undefined, calls |-> NoCalls]
    /\ UNCHANGED <<rule, allHop, save, def, addV, gameMap, char, gameSwitches, saveFile>>

\* plugin command Reset Jump Height
ComRstH ==
    /\ mulH' = setJumpHeight(Undefined)
    /\ last' = [op |-> "rstH", args |-> << >>, ret |-> Undefined, calls |-> NoCalls]
    /\ UNCHANGED <<rule, allHop, save, def, addV, gameMap, char, gameSwitches, saveFile>>

\* DataManager.createGameObjects: $._init() on new game
CreateGameObjects ==
    /\ addV' = setJumpSpeed(Undefined)
    /\ mulH' = setJumpHeight(Undefined)
    /\ last' = [op |-> "createGameObjects", args |-> << >>, ret |-> Undefined, calls |-> NoCalls]
    /\ UNCHANGED <<rule, allHop, save, def, gameMap, char, gameSwitches, saveFile>>

\* DataManager.makeSaveContents, aliased only when Add Save Data is on
MakeSaveContents ==
    /\ save
    /\ saveFile' = mkSave(saveFile)
    /\ last' = [op |-> "makeSaveContents", args |-> << >>, ret |-> Undefined, calls |-> NoCalls]
    /\ UNCHANGED <<rule, allHop, save, def, addV, mulH, gameMap, char, gameSwitches>>

\* what a save file may hold under the plugin's key: nothing, or an object
\* with each of the two fields present or missing
SavedValues == {Undefined, Val(-50), Val(0)}

Blobs == {Undefined} \cup {Val([addV |-> a, mulH |-> h]) : a, h \in SavedValues}

\* DataManager.extractSaveContents, aliased only when Add Save Data is on
ExtractSaveContents(contents) ==
    /\ save
    /\ LET data == exSave(contents)
       IN  /\ addV' = data.addV
           /\ mulH' = data.mulH
    /\ last' = [op |-> "extractSaveContents", args |-> <<contents>>,
                ret |-> Undefined, calls |-> NoCalls]
    /\ UNCHANGED <<rule, allHop, save, def, gameMap, char, gameSwitches, saveFile>>

InitSettings ==
    Setup(Rules({FALSE}, {<< >>}, {TRUE}, {0}), {FALSE}, BOOLEAN, SpeedMults, HeightMults,
          Maps({FALSE}, {Dirs}, {{}}), {c \in Chars({FALSE}, {Undefined}) : c.x = 0 /\ c.y = 0})

NextSettings ==
    \/ \E mult \in SpeedMults : ComSetV(mult)
    \/ ComRstV
    \/ \E mult \in HeightMults : ComSetH(mult)
    \/ ComRstH
    \/ CreateGameObjects
    \/ MakeSaveContents
    \/ \E contents \in Blobs \cup {saveFile} : ExtractSaveContents(contents)

SpecSettings == InitSettings /\ [][NextSettings]_vars

\* ================================================================== claims
hasZoneEntry(region) == \E i \in 1 .. Len(rule.zones) : rule.zones[i].regionID = region

\* the zone id of the first entry for a region that has one
zoneOfRegion(region) ==
    rule.zones[CHOOSE i \in 1 .. Len(rule.zones) :
                   /\ rule.zones[i].regionID = region
                   /\ \A j \in 1 .. i - 1 : rule.zones[j].regionID # region].jumpZone

noEntryDirection(x, y) == ~isValid(x, y) \/ gameMap.passage[<<x, y>>] = {}

\* C1: checkZones is true with an empty zone table and true when origin and
\* target have the same region id; otherwise it is true if either region has
\* no entry in the table, and with both regions in the table it is true
\* exactly when the two zone ids are equal, for every zone id, 0 included.
C1_CheckZonesByZoneEquality ==
    last.op = "checkJumpZones" =>
        LET rs == regionId(last.args[1], last.args[2])
            rt == regionId(last.args[3], last.args[4])
        IN  last.ret[1] =
                IF Len(rule.zones) = 0 THEN TRUE
                ELSE IF rs = rt THEN TRUE
                ELSE IF ~hasZoneEntry(rs) \/ ~hasZoneEntry(rt) THEN TRUE
                ELSE zoneOfRegion(rs) = zoneOfRegion(rt)

\* C2: checkPassage decides in this order: true if passability enforcement is
\* off; else true if the character stands on (x, y); else true if it is
\* Through; else false if (x, y) is outside the map; else false if another
\* character occupies (x, y); else true exactly when the tile can be entered
\* from at least one of the directions 2, 4, 6, 8.
C2_CheckPassageOrder ==
    last.op = "checkPassage" =>
        LET x == last.args[1]
            y == last.args[2]
        IN  last.ret[1] =
                IF ~rule.pass THEN TRUE
                ELSE IF char.x = x /\ char.y = y THEN TRUE
                ELSE IF char.through THEN TRUE
                ELSE IF x < 0 \/ x >= gameMap.width \/ y < 0 \/ y >= gameMap.height THEN FALSE
                ELSE IF <<x, y>> \in gameMap.others THEN FALSE
                ELSE gameMap.passage[<<x, y>>] \cap {2, 4, 6, 8} # {}

\* C2 witness: with enforcement on, a character that is not Through asks about
\* a free tile of the map, not its own, that can only be entered upwards (8):
\* the answer is true.
C2_Witness ==
    /\ last.op = "checkPassage"
    /\ rule.pass /\ ~char.through
    /\ ~(char.x = last.args[1] /\ char.y = last.args[2])
    /\ isValid(last.args[1], last.args[2])
    /\ <<last.args[1], last.args[2]>> \notin gameMap.others
    /\ gameMap.passage[<<last.args[1], last.args[2]>>] = {8}
    /\ last.ret[1]

\* C3: checkJump is true for every Through character; for a character that is
\* not Through it equals checkPassage(target) and checkZones(origin, target);
\* so with enforcement on, a character that is not Through and a target tile
\* other than its own with no passable entry direction, checkJump is false.
C3_CheckJumpThroughOrBoth ==
    last.op = "checkJump" =>
        LET tx == last.args[3]
            ty == last.args[4]
        IN  /\ char.through => last.ret[1]
            /\ ~char.through =>
                   last.ret[1] = (checkPassage(char, tx, ty)
                                      /\ checkJumpZones(char.x, char.y, tx, ty))
            /\ (rule.pass /\ ~char.through /\ ~(char.x = tx /\ char.y = ty)
                    /\ noEntryDirection(tx, ty)) => ~last.ret[1]

\* C3 witness: a Through character is allowed a jump onto a tile with no entry
\* direction in another jump zone, with passability enforced.
C3_Witness ==
    /\ last.op = "checkJump"
    /\ char.through /\ rule.pass
    /\ ~(char.x = last.args[3] /\ char.y = last.args[4])
    /\ noEntryDirection(last.args[3], last.args[4])
    /\ ~checkJumpZones(char.x, char.y, last.args[3], last.args[4])
    /\ last.ret[1]

\* the jump request of a step that called jump(xPlus, yPlus) directly, judged
\* by checkJump on the state the call started from
requestAllowed ==
    checkJump(char, char.x, char.y,
              getTargetTile(char.x, last'.args[1], TRUE),
              getTargetTile(char.y, last'.args[2], FALSE))

\* C4: for every jump(dx, dy) request the engine's jump runs with the
\* requested displacement exactly when checkJump is true, and then no switch
\* is written; when checkJump is false the engine's jump runs with (0, 0)
\* exactly when stay-in-place-on-failure is on, and the failure switch is set
\* to true exactly when its id is not 0, the one independently of the other.
C4_JumpFailurePolicy ==
    [][last'.op = "jump" =>
        LET req == <<last'.args[1], last'.args[2]>>
        IN  IF requestAllowed
            THEN /\ last'.calls.native = <<req>>
                 /\ last'.calls.setValue = << >>
                 /\ gameSwitches' = gameSwitches
            ELSE /\ last'.calls.native = (IF rule.stayJumpy THEN << <<0, 0>> >> ELSE << >>)
                 /\ last'.calls.setValue = (IF rule.failSw # 0 THEN <<rule.failSw>> ELSE << >>)
                 /\ rule.failSw # 0 => gameSwitches'[rule.failSw]
                 /\ \A i \in DOMAIN gameSwitches :
                        i # rule.failSw => gameSwitches'[i] = gameSwitches[i]]_vars

\* C4 witness: a denied jump request with stay-in-place on and a failure
\* switch configured made the (0, 0) jump and set the switch.
C4_Witness ==
    /\ last.op = "jump"
    /\ ~last.calls.jump[1].ok
    /\ <<last.args[1], last.args[2]>> # <<0, 0>>
    /\ rule.stayJumpy /\ rule.failSw # 0
    /\ last.calls.native = << <<0, 0>> >>
    /\ last.calls.setValue = <<rule.failSw>>
    /\ gameSwitches[rule.failSw]

\* C5: for a character whose jump is allowed, jumpTo(x, y) with a tile of the
\* map starts a jump that lands on exactly (x, y), on maps that do not loop
\* and on maps that loop horizontally and/or vertically.
C5_JumpToLandsOnTarget ==
    (last.op = "jumpTo" /\ last.calls.jump[1].ok) =>
        /\ last.calls.jump[1].tx = last.args[1]
        /\ last.calls.jump[1].ty = last.args[2]
        /\ roundX(char.x) = last.args[1]
        /\ roundY(char.y) = last.args[2]

\* C6: hop mode of a character is its personal hopMove override whenever the
\* override is present, true or false, whatever the global flag is; only
\* without an override is it the global hop flag.
C6_HopOverrideWins ==
    isHopMove(char) = (IF char.hopMove # Undefined THEN char.hopMove[1] ELSE allHop)

\* C7: after deserialize(blob), for any blob (key absent, or present with one
\* or both fields missing), each of additiveSpeed and heightMultiplier holds
\* the value the blob carries for it or the configured default, and is never
\* undefined.
C7_LoadGivesBlobOrDefault ==
    last.op = "extractSaveContents" =>
        LET blob == last.args[1]
            carriedV == IF blob # Undefined /\ blob[1].addV # Undefined
                        THEN {blob[1].addV} ELSE {}
            carriedH == IF blob # Undefined /\ blob[1].mulH # Undefined
                        THEN {blob[1].mulH} ELSE {}
        IN  /\ addV # Undefined /\ addV \in carriedV \cup {Val(Max(def.v, 1) - 100)}
            /\ mulH # Undefined /\ mulH \in carriedH \cup {Val(def.h)}

\* C8: a denied jump never relocates the character: after jump(dx, dy) with
\* checkJump false its tile position is what it was before the call, under
\* every failure policy; and with stay-in-place-on-failure off its jump state
\* (countdown, peak, jumping flag) is unchanged too.
C8_DeniedJumpStays ==
    [][(last'.op = "jump" /\ ~requestAllowed) =>
        /\ char'.x = char.x
        /\ char'.y = char.y
        /\ ~rule.stayJumpy =>
               /\ char'.jumpCount = char.jumpCount
               /\ char'.jumpPeak = char.jumpPeak
               /\ isJumping(char') = isJumping(char)]_vars

\* C8 witness: a character in the middle of a jump is denied a further jump
\* with stay-in-place off, and is still in that jump.
C8_Witness ==
    /\ last.op = "jump"
    /\ ~last.calls.jump[1].ok
    /\ <<last.args[1], last.args[2]>> # <<0, 0>>
    /\ ~rule.stayJumpy
    /\ last.calls.native = << >>
    /\ isJumping(char)

\* also C8, for a denied jump that stays in place: the (0, 0) jump is started
\* where the character stands
C8_WitnessStay ==
    /\ last.op = "jump"
    /\ ~last.calls.jump[1].ok
    /\ rule.stayJumpy
    /\ isJumping(char)

hopped == last.calls.jumpTo # << >>

\* C9: after every moveStraight or moveDiagonally attempt a zero-displacement
\* jump to the character's own tile is triggered exactly when hop mode is
\* active for it and (the move succeeded or stay-in-place-on-failure is on).
C9_HopAfterMove ==
    last.op \in {"moveStraight", "moveDiagonally"} =>
        /\ hopped = (isHopMove(char) /\ (char.moveSucceeded \/ rule.stayJumpy))
        /\ hopped =>
               /\ last.calls.jumpTo = << <<char.x, char.y>> >>
               /\ Len(last.calls.jump) = 1
               /\ last.calls.jump[1].xPlus = 0 /\ last.calls.jump[1].yPlus = 0
               /\ last.calls.jump[1].tx = char.x /\ last.calls.jump[1].ty = char.y
        /\ ~hopped => last.calls = NoCalls

\* C9 witness: in hop mode a failed move hopped in place because
\* stay-in-place-on-failure is on.
C9_Witness ==
    /\ last.op \in {"moveStraight", "moveDiagonally"}
    /\ isHopMove(char) /\ ~char.moveSucceeded /\ rule.stayJumpy
    /\ hopped
    /\ last.calls.native = << <<0, 0>> >>

\* C10: a hop-triggered jump never turns on the failure switch: under every
\* configuration, map and character the jump the hop controller issues to the
\* character's own tile passes checkJump, so the failure policy does not run.
C10_HopNeverFails ==
    /\ \A i \in DOMAIN gameSwitches : ~gameSwitches[i]
    /\ (last.op \in {"moveStraight", "moveDiagonally"} /\ hopped) =>
           /\ last.calls.jump[1].ok
           /\ last.calls.native = << <<0, 0>> >>
           /\ last.calls.setValue = << >>

\* C10 witness: with passability enforced, a jump zone table and a failure
\* switch configured, a character that is not Through hops on a tile that
\* another character occupies or that has no entry direction.
C10_Witness ==
    /\ last.op \in {"moveStraight", "moveDiagonally"}
    /\ hopped
    /\ rule.pass /\ rule.failSw # 0 /\ Len(rule.zones) > 0 /\ ~char.through
    /\ (<<char.x, char.y>> \in gameMap.others \/ noEntryDirection(char.x, char.y))
    /\ last.calls.jump[1].ok

\* personal speed multipliers a script may give a character (hundredths)
OverrideMults == {0, 1, 125}

\* C11: in every reachable state, after any sequence of set-speed commands,
\* resets, new-game initialisation, serialize and deserialize, the global
\* additiveSpeed is at least -0.99, and so is speedAdditive(entity) for every
\* entity, with or without a personal speed multiplier of any value.
C11_AdditiveSpeedFloor ==
    /\ addV # Undefined /\ addV[1] >= -99
    /\ \A o \in {Undefined} \cup {Val(m) : m \in OverrideMults} :
           LET a == getJumpSpeedAdd([char EXCEPT !.speedMult = o])
           IN  a # Undefined /\ a[1] >= -99

\* ------------------------------------------------------------ actions: target tile
\* offsets up to a full turn around the map and one tile more
Offsets == -(MapW + 1) .. (MapW + 1)

CallGetTargetTile(start, plus, isX) ==
    /\ last' = [op |-> "getTargetTile", args |-> <<start, plus, IF isX THEN 1 ELSE 0>>,
                ret |-> Val(getTargetTile(start, plus, isX)), calls |-> NoCalls]
    /\ UNCHANGED <<rule, allHop, save, def, addV, mulH, gameMap, char, gameSwitches, saveFile>>

InitTarget ==
    Setup(Rules({FALSE}, {<< >>}, {TRUE}, {0}), {FALSE}, {FALSE}, {100}, {100},
          Maps(BOOLEAN, {Dirs}, {{}}), {c \in Chars({FALSE}, {Undefined}) : c.x = 0 /\ c.y = 0})

NextTarget ==
    \/ \E start \in WindowX, plus \in Offsets : CallGetTargetTile(start, plus, TRUE)
    \/ \E start \in WindowY, plus \in Offsets : CallGetTargetTile(start, plus, FALSE)

SpecTarget == InitTarget /\ [][NextTarget]_vars

\* C12: resolveTarget applies a displacement as |delta| single-tile steps: a
\* zero delta returns the origin unchanged; otherwise on an axis that does not
\* loop the result is origin + delta, and on a looping axis of size N it is
\* (origin + delta) mod N, in 0 .. N - 1.
C12_TargetTileWraps ==
    last.op = "getTargetTile" =>
        LET start == last.args[1]
            plus == last.args[2]
            isX == last.args[3] = 1
            loops == IF isX THEN gameMap.loopH ELSE gameMap.loopV
            size == IF isX THEN gameMap.width ELSE gameMap.height
        IN  last.ret[1] = IF plus = 0 THEN start
                          ELSE IF loops THEN (start + plus) % size
                          ELSE start + plus

\* C12 witness: on a horizontally looping map, three steps right from the last
\* column wrap past column 0 (width 3: 2 -> 0 -> 1 -> 2).
C12_Witness ==
    /\ last.op = "getTargetTile"
    /\ last.args[3] = 1 /\ gameMap.loopH
    /\ last.args[1] = gameMap.width - 1
    /\ last.args[2] = 3
    /\ last.ret[1] = (gameMap.width + 2) % gameMap.width
    /\ last.ret[1] < last.args[1] + last.args[2]

\* ------------------------------------------------------------ actions: jump in progress
\* a script gives the character a personal speed multiplier: an assignment
\* to a field, which calls nothing of the plugin
SetSpeedMult(mult) ==
    /\ char' = [char EXCEPT !.speedMult = Val(mult)]
    /\ UNCHANGED <<rule, allHop, save, def, addV, mulH, gameMap, gameSwitches, saveFile, last>>

\* a script deletes the character's personal speed multiplier
DeleteSpeedMult ==
    /\ char.speedMult # Undefined
    /\ char' = [char EXCEPT !.speedMult = Undefined]
    /\ UNCHANGED <<rule, allHop, save, def, addV, mulH, gameMap, gameSwitches, saveFile, last>>

\* a move route or the player starts a jump; both wait while isMoving(), which
\* the plugin makes true for the whole of a jump
StartJump(xPlus, yPlus) ==
    /\ ~isJumping(char)
    /\ CallJump(xPlus, yPlus)

\* one frame of a jumping character: the engine's update calls updateJump
\* while isJumping(); args holds the countdown the engine's updateJump is given
Tick ==
    /\ isJumping(char)
    /\ char' = updateJump(char)
    /\ last' = [op |-> "updateJump", args |-> <<offsetJumpCount(char)>>, ret |-> Undefined,
                calls |-> NoCalls]
    /\ UNCHANGED <<rule, allHop, save, def, addV, mulH, gameMap, gameSwitches, saveFile>>

InitTick ==
    Setup(Rules({TRUE}, {<< >>}, {TRUE}, {0}), {FALSE}, {TRUE}, {100}, {100},
          Maps({FALSE}, {Dirs}, {{}}), {c \in Chars({FALSE}, {Undefined}) : c.x = 0 /\ c.y = 0})

\* the multipliers set while a jump is followed: the floor and a slower
\* fraction by command, the floor and a faster fraction as personal value
CommandMults == {1, 50}

PersonalMults == {1, 125}

NextJumping ==
    \/ \E mult \in CommandMults : ComSetV(mult)
    \/ ComRstV
    \/ \E mult \in PersonalMults : SetSpeedMult(mult)
    \/ DeleteSpeedMult
    \/ \E xPlus \in -MaxJump .. MaxJump : StartJump(xPlus, 0)
    \/ Tick

\* the saves that differ in the speed they hold
SpeedBlobs == {b \in Blobs : b = Undefined \/ b[1].mulH = Val(0)}

NextTick ==
    \/ NextJumping
    \/ \E contents \in SpeedBlobs : ExtractSaveContents(contents)

SpecTick == InitTick /\ [][NextTick]_vars

\* the engine updates every character on every frame
SpecJumping == InitTick /\ [][NextJumping]_vars /\ WF_vars(Tick)

\* C13: on every tick of a jump in progress, whatever speed is in effect, the
\* countdown handed to the engine's update is at least 1 (100 hundredths), and
\* so the countdown is never negative.
C13_CountdownAtLeastOne ==
    /\ last.op = "updateJump" => (last.args[1] # NaN /\ last.args[1][1] >= 100)
    /\ ~(char.jumpCount # NaN /\ char.jumpCount[1] < 0)

\* C14: every started jump completes: while the engine keeps ticking, a
\* countdown above 0 leads to a countdown of exactly 0, whatever multipliers
\* commands and personal overrides set before and during the jump.
C14_JumpCompletes == isJumping(char) ~> char.jumpCount = Val(0)

\* C14 witness: a jump that lands while the floor speed is in effect (one
\* hundredth a tick net): the tick that takes the countdown from 1 to 0.
C14_Witness ==
    /\ last.op = "updateJump"
    /\ getJumpSpeedAdd(char) = Val(-99)
    /\ last.args[1] = Val(100)
    /\ char.jumpCount = Val(0)

====
